---- MODULE Spec2Model ----
(***************************************************************************)
(* The GitLab webhook request pipeline of cmd/gitlab_server_handlers.go:   *)
(* GitLabWebhookHandler builds one client and returns the closure that     *)
(* serves every POST.  Each request in flight is one instance of that      *)
(* closure; its locals, its response writer and the calls it makes on the  *)
(* collaborators are kept per request.                                     *)
(***************************************************************************)
EXTENDS Integers, Sequences, FiniteSets, TLC

\* Largest multiplier of the merge request IIDs a payload may carry.
MaxIID == 2

\* The connections on which a request may be in flight.
Reqs == {"r1", "r2"}

\* net/http status codes the handler uses.
StatusOK == 200
StatusBadRequest == 400
StatusForbidden == 403
StatusNotAcceptable == 406
StatusInternalServerError == 500

\* A nil error, a context field never set, an argument a call does not take.
NoErr == "<nil>"
Unset == "<unset>"
NoArg == "<none>"

----------------------------------------------------------------------------
\* JSON documents.  A value is absent, a string or a number.

JAbsent == [t |-> "absent", s |-> "", n |-> 0]
JStr(s) == [t |-> "string", s |-> s, n |-> 0]
JNum(n) == [t |-> "number", s |-> "", n |-> n]

IIDs == {7 * i : i \in 1..MaxIID}
Shas == {"a1f", "b2e"}

\* The keys of the webhook object the typed envelope reads.
EmptyObject ==
    [event_type |-> JAbsent, project |-> JAbsent, oa_iid |-> JAbsent,
     oa_sha |-> JAbsent, mr_iid |-> JAbsent, mr_sha |-> JAbsent]

Objects ==
    [event_type : {JAbsent, JStr("merge_request"), JStr("note"), JStr("push")},
     project    : {JStr("grp/proj")},
     oa_iid     : {JAbsent, JStr("7")} \cup {JNum(i) : i \in IIDs},
     oa_sha     : {JStr(s) : s \in Shas},
     mr_iid     : {JAbsent} \cup {JNum(i) : i \in IIDs},
     mr_sha     : {JStr(s) : s \in Shas}]

\* A request body: its length in bytes and what a JSON scanner finds in it:
\* nothing ("eof"), a syntax error ("syntax") or one object ("object").
EmptyBody == [len |-> 0, kind |-> "eof", obj |-> EmptyObject]
BlankBody == [len |-> 1, kind |-> "eof", obj |-> EmptyObject]
MalformedBody == [len |-> 9, kind |-> "syntax", obj |-> EmptyObject]
ObjectBody(o) == [len |-> 64, kind |-> "object", obj |-> o]

Bodies == {EmptyBody, BlankBody, MalformedBody} \cup {ObjectBody(o) : o \in Objects}

\* One body for each path through the handler.
PathObjects ==
    {o \in Objects : /\ o.oa_iid \in {JNum(7), JStr("7")}
                     /\ o.mr_iid = JNum(14)
                     /\ o.oa_sha = JStr("a1f")
                     /\ o.mr_sha = JStr("b2e")}
PathBodies == {EmptyBody, MalformedBody} \cup {ObjectBody(o) : o \in PathObjects}

Secrets == {"", "s3cret"}
Tokens == {"", "s3cret", "S3cret"}
ContentTypes == {"application/json", "application/json; charset=utf-8", "text/plain"}
GlobalPaths == {"", "/etc/scm-engine.yml"}

Requests == [token : Tokens, contentType : ContentTypes, body : Bodies]
PathRequests == [token : Tokens, contentType : ContentTypes, body : PathBodies]
NoRequest == [token |-> "", contentType |-> "", body |-> EmptyBody]

----------------------------------------------------------------------------
\* Configurations and configuration files.

NilFile == [present |-> FALSE, valid |-> FALSE]
GoodFile == [present |-> TRUE, valid |-> TRUE]
BadFile == [present |-> TRUE, valid |-> FALSE]

NilConfig == [from |-> "nil"]
LoadedGlobalConfig == [from |-> "global"]
RemoteConfig == [from |-> "remote"]

\* config.ParseFile: the parsed configuration, or nil with an error.
ParseFile(file) == IF file.valid THEN RemoteConfig ELSE NilConfig

\* What the collaborators answer to one request: the error of io.ReadAll,
\* the (file, err) pair of GetRemoteConfig, the error of ProcessMR.
FetchOutcomes ==
    {[file |-> NilFile, err |-> "gitlab: 500 on repository file"],
     [file |-> GoodFile, err |-> NoErr],
     [file |-> BadFile, err |-> NoErr],
     [file |-> NilFile, err |-> NoErr]}

Outcomes ==
    [read : {NoErr, "unexpected EOF"},
     fetch : FetchOutcomes,
     process : {NoErr, "evaluation failed"}]

NoOutcome == [read |-> NoErr, fetch |-> [file |-> NilFile, err |-> NoErr], process |-> NoErr]

----------------------------------------------------------------------------
\* The typed envelope and the two decodes.

ZeroPayload ==
    [EventType |-> "",
     Project |-> [PathWithNamespace |-> ""],
     ObjectAttributes |-> [IID |-> 0, LastCommit |-> [ID |-> ""]],
     MergeRequest |-> [IID |-> 0, LastCommit |-> [ID |-> ""]]]

\* A key the envelope types as a string (number) holds a number (string).
Mismatch(v, t) == v.t # "absent" /\ v.t # t

GitlabWebhookPayload(o) ==
    [EventType |-> o.event_type.s,
     Project |-> [PathWithNamespace |-> o.project.s],
     ObjectAttributes |-> [IID |-> o.oa_iid.n, LastCommit |-> [ID |-> o.oa_sha.s]],
     MergeRequest |-> [IID |-> o.mr_iid.n, LastCommit |-> [ID |-> o.mr_sha.s]]]

\* Faulty variant of the typed decode: every error is dropped and the
\* envelope keeps its zero values.
DecodeTypedLenient(body) ==
    [err |-> NoErr,
     payload |-> IF body.kind = "object" /\ ~Mismatch(body.obj.oa_iid, "number")
                 THEN GitlabWebhookPayload(body.obj)
                 ELSE ZeroPayload]

\* json.NewDecoder(bytes.NewReader(body)).Decode(&payload)
DecodeTyped(body) ==
    CASE body.kind = "eof" -> [err |-> "EOF", payload |-> ZeroPayload]
      [] body.kind = "syntax" ->
            [err |-> "invalid character '}' looking for beginning of value",
             payload |-> ZeroPayload]
      [] OTHER ->
            IF \/ Mismatch(body.obj.event_type, "string")
               \/ Mismatch(body.obj.project, "string")
               \/ Mismatch(body.obj.oa_iid, "number")
               \/ Mismatch(body.obj.oa_sha, "string")
               \/ Mismatch(body.obj.mr_iid, "number")
               \/ Mismatch(body.obj.mr_sha, "string")
            THEN [err |-> "json: cannot unmarshal string into Go struct field of type int",
                  payload |-> ZeroPayload]
            ELSE [err |-> NoErr, payload |-> GitlabWebhookPayload(body.obj)]

\* json.NewDecoder(bytes.NewReader(body)).Decode(&fullEventPayload): the keys
\* present, with their values untyped.
DecodeAny(body) ==
    CASE body.kind = "eof" -> [err |-> "EOF", value |-> {}]
      [] body.kind = "syntax" ->
            [err |-> "invalid character '}' looking for beginning of value", value |-> {}]
      [] OTHER ->
            [err |-> NoErr,
             value |-> {<<k, body.obj[k]>> : k \in {j \in DOMAIN body.obj : body.obj[j].t # "absent"}}]

\* strconv.Itoa
Digit(d) == SubSeq("0123456789", d + 1, d + 1)

RECURSIVE ItoaNat(_)
ItoaNat(n) == IF n < 10 THEN Digit(n) ELSE ItoaNat(n \div 10) \o Digit(n % 10)

Itoa(n) == IF n < 0 THEN "-" \o ItoaNat(0 - n) ELSE ItoaNat(n)

----------------------------------------------------------------------------
VARIABLES
    webhookSecret,          \* the secret the handler was built with
    globalConfigFilePath,   \* state.GlobalConfigFilePath(ctx)
    globalConfig,           \* config.GlobalConfigFromContext(ctx)
    req,                    \* per request: its headers and body on the wire
    outcome,                \* per request: what the collaborators answer
    pc,                     \* per request: the statement the handler is at
    body,                   \* per request: the bytes io.ReadAll returned
    payload,                \* per request: the typed envelope
    ctx,                    \* per request: the correlation context
    ctxLog,                 \* per request: the context fields attached, in order
    id,                     \* per request: the resource identifier
    gitSha,                 \* per request: the commit reference
    fullEventPayload,       \* per request: the untyped payload
    file,                   \* per request: the file GetRemoteConfig returned
    err,                    \* per request: the error of the last call
    cfg,                    \* per request: the configuration resolved
    w,                      \* per request: the response writer
    calls,                  \* per request: the collaborator calls made
    errLog                  \* per request: the errHandler invocations

server == <<webhookSecret, globalConfigFilePath, globalConfig, req, outcome>>
locals == <<body, payload, ctx, ctxLog, id, gitSha, fullEventPayload, file, err, cfg>>
vars == <<server, pc, locals, w, calls, errLog>>

EmptyContext ==
    [projectID |-> Unset, commitSHA |-> Unset, mergeRequestID |-> Unset, eventType |-> Unset]

\* state.ConfigFilePath(ctx)
ConfigFilePath == ".scm-engine.yml"

EmptyResponse == [header |-> <<>>, body |-> <<>>]

\* http.ResponseWriter: every WriteHeader call and every Write, in order.
WriteHeader(rw, code) == [rw EXCEPT !.header = Append(@, code)]
Write(rw, text) == [rw EXCEPT !.body = Append(@, text)]

\* The status the client receives: the first WriteHeader wins, later ones
\* are dropped as superfluous.
Status(rw) == rw.header[1]

\* errHandler(ctx, w, code, err): log the error, answer code with its text.
errHandler(r, code, e) ==
    /\ w' = [w EXCEPT ![r] = Write(WriteHeader(@, code), e)]
    /\ errLog' = [errLog EXCEPT ![r] = Append(@, [ctx |-> ctx[r], code |-> code, err |-> e])]

Call(fn, c, path, sha, config, full) ==
    [fn |-> fn, ctx |-> c, path |-> path, sha |-> sha, cfg |-> config, payload |-> full]

Goto(r, label) == pc' = [pc EXCEPT ![r] = label]

----------------------------------------------------------------------------
\* Init: the handler is built, and requests have arrived.

InitServer ==
    /\ webhookSecret \in Secrets
    /\ globalConfigFilePath \in GlobalPaths
    /\ globalConfig = IF globalConfigFilePath = "" THEN NilConfig ELSE LoadedGlobalConfig

InitHandlers(live) ==
    /\ pc = [r \in Reqs |-> IF r \in live THEN "auth" ELSE "idle"]
    /\ body = [r \in Reqs |-> EmptyBody]
    /\ payload = [r \in Reqs |-> ZeroPayload]
    /\ ctx = [r \in Reqs |-> EmptyContext]
    /\ ctxLog = [r \in Reqs |-> <<>>]
    /\ id = [r \in Reqs |-> ""]
    /\ gitSha = [r \in Reqs |-> ""]
    /\ fullEventPayload = [r \in Reqs |-> {}]
    /\ file = [r \in Reqs |-> NilFile]
    /\ err = [r \in Reqs |-> NoErr]
    /\ cfg = [r \in Reqs |-> NilConfig]
    /\ w = [r \in Reqs |-> EmptyResponse]
    /\ calls = [r \in Reqs |-> <<>>]
    /\ errLog = [r \in Reqs |-> <<>>]

\* One request in flight.
Init ==
    /\ InitServer
    /\ \E q \in Requests, o \in Outcomes :
          /\ req = [r \in Reqs |-> IF r = "r1" THEN q ELSE NoRequest]
          /\ outcome = [r \in Reqs |-> IF r = "r1" THEN o ELSE NoOutcome]
    /\ InitHandlers({"r1"})

----------------------------------------------------------------------------
\* The handler, statement by statement.

\* Faulty variants of lines 39-41: only a missing header is refused; the
\* header is compared even when no secret is configured.
AuthFailsOnMissingHeaderOnly(secret, theirSecret) == Len(secret) > 0 /\ theirSecret = ""
AuthFailsWithoutLengthTest(secret, theirSecret) == secret # theirSecret

\* Lines 39-41: the secret is checked only when one is configured.
AuthFails(secret, theirSecret) == Len(secret) > 0 /\ secret # theirSecret

\* Faulty variant of lines 38-53: the content type is tested before the
\* secret.
AuthGateAfterContentType(r) ==
    /\ pc[r] = "auth"
    /\ IF ~(req[r].contentType = "application/json")
       THEN /\ errHandler(r, StatusNotAcceptable,
                          "The request is not using Content-Type: application/json")
            /\ Goto(r, "done")
       ELSE IF Len(webhookSecret) > 0 /\ webhookSecret # req[r].token
            THEN /\ errHandler(r, StatusForbidden, "Missing or invalid X-Gitlab-Token header")
                 /\ Goto(r, "done")
            ELSE /\ Goto(r, "ctype")
                 /\ UNCHANGED <<w, errLog>>
    /\ UNCHANGED <<server, locals, calls>>

AuthGate(r) ==
    /\ pc[r] = "auth"
    /\ IF AuthFails(webhookSecret, req[r].token)
       THEN /\ errHandler(r, StatusForbidden, "Missing or invalid X-Gitlab-Token header")
            /\ Goto(r, "done")
       ELSE /\ Goto(r, "ctype")
            /\ UNCHANGED <<w, errLog>>
    /\ UNCHANGED <<server, locals, calls>>

\* Faulty variant of line 49: a prefix test, which lets parameters through.
ContentTypeHasPrefix(contentType) == SubSeq(contentType, 1, 16) = "application/json"

\* Line 49
ContentTypeOK(contentType) == contentType = "application/json"

ValidateContentType(r) ==
    /\ pc[r] = "ctype"
    /\ IF ~ContentTypeOK(req[r].contentType)
       THEN /\ errHandler(r, StatusNotAcceptable,
                          "The request is not using Content-Type: application/json")
            /\ Goto(r, "done")
       ELSE /\ Goto(r, "read")
            /\ UNCHANGED <<w, errLog>>
    /\ UNCHANGED <<server, locals, calls>>

\* Faulty variant of lines 56-61: the bytes read land in one buffer that all
\* requests share.
ReadBodySharedBuffer(r) ==
    /\ pc[r] = "read"
    /\ err' = [err EXCEPT ![r] = outcome[r].read]
    /\ IF outcome[r].read # NoErr
       THEN /\ errHandler(r, StatusBadRequest, outcome[r].read)
            /\ Goto(r, "done")
            /\ UNCHANGED body
       ELSE /\ body' = [s \in Reqs |-> req[r].body]
            /\ Goto(r, "empty")
            /\ UNCHANGED <<w, errLog>>
    /\ UNCHANGED <<server, payload, ctx, ctxLog, id, gitSha, fullEventPayload, file, cfg, calls>>

\* Lines 56-61: io.ReadAll returns the bytes read, or an error.
ReadBody(r) ==
    /\ pc[r] = "read"
    /\ err' = [err EXCEPT ![r] = outcome[r].read]
    /\ IF outcome[r].read # NoErr
       THEN /\ errHandler(r, StatusBadRequest, outcome[r].read)
            /\ Goto(r, "done")
            /\ UNCHANGED body
       ELSE /\ body' = [body EXCEPT ![r] = req[r].body]
            /\ Goto(r, "empty")
            /\ UNCHANGED <<w, errLog>>
    /\ UNCHANGED <<server, payload, ctx, ctxLog, id, gitSha, fullEventPayload, file, cfg, calls>>

\* Faulty variant of lines 64-66: the status of the block above, copied.
CheckEmptyBodyNotAcceptable(r) ==
    /\ pc[r] = "empty"
    /\ IF body[r].len = 0
       THEN errHandler(r, StatusNotAcceptable,
                       "The POST body is empty; expected a JSON payload")
       ELSE UNCHANGED <<w, errLog>>
    /\ Goto(r, "decode")
    /\ UNCHANGED <<server, locals, calls>>

\* Lines 64-66: the branch reports the empty body and does not return.
CheckEmptyBody(r) ==
    /\ pc[r] = "empty"
    /\ IF body[r].len = 0
       THEN errHandler(r, StatusBadRequest, "The POST body is empty; expected a JSON payload")
       ELSE UNCHANGED <<w, errLog>>
    /\ Goto(r, "decode")
    /\ UNCHANGED <<server, locals, calls>>

\* Lines 69-77: the typed decode, then the project identity joins the context.
DecodePayload(r) ==
    /\ pc[r] = "decode"
    /\ LET d == DecodeTyped(body[r]) IN
       /\ payload' = [payload EXCEPT ![r] = d.payload]
       /\ IF d.err # NoErr
          THEN /\ errHandler(r, StatusBadRequest,
                     "could not decode POST body into Payload struct: " \o d.err)
               /\ Goto(r, "done")
               /\ UNCHANGED <<ctx, ctxLog>>
          ELSE /\ ctx' = [ctx EXCEPT ![r].projectID = d.payload.Project.PathWithNamespace]
               /\ ctxLog' = [ctxLog EXCEPT ![r] = Append(@, "projectID")]
               /\ Goto(r, "route")
               /\ UNCHANGED <<w, errLog>>
    /\ UNCHANGED <<server, body, id, gitSha, fullEventPayload, file, err, cfg, calls>>

\* Faulty variant of lines 90-92: the note case reads the primary object.
RouteEventNoteFromObjectAttributes(p) ==
    CASE p.EventType \in {"merge_request", "note"} ->
            [known |-> TRUE, id |-> Itoa(p.ObjectAttributes.IID),
             gitSha |-> p.ObjectAttributes.LastCommit.ID]
      [] OTHER -> [known |-> FALSE, id |-> "", gitSha |-> ""]

\* Faulty variant of lines 94-97: the default case lets the event through
\* with the zero identifier and commit.
RouteEventDefaultPassThrough(p) ==
    CASE p.EventType = "merge_request" ->
            [known |-> TRUE, id |-> Itoa(p.ObjectAttributes.IID),
             gitSha |-> p.ObjectAttributes.LastCommit.ID]
      [] p.EventType = "note" ->
            [known |-> TRUE, id |-> Itoa(p.MergeRequest.IID),
             gitSha |-> p.MergeRequest.LastCommit.ID]
      [] OTHER -> [known |-> TRUE, id |-> "", gitSha |-> ""]

\* Lines 85-98: the switch on the event type.
RouteEvent(p) ==
    CASE p.EventType = "merge_request" ->
            [known |-> TRUE, id |-> Itoa(p.ObjectAttributes.IID),
             gitSha |-> p.ObjectAttributes.LastCommit.ID]
      [] p.EventType = "note" ->
            [known |-> TRUE, id |-> Itoa(p.MergeRequest.IID),
             gitSha |-> p.MergeRequest.LastCommit.ID]
      [] OTHER -> [known |-> FALSE, id |-> "", gitSha |-> ""]

EventRouter(r) ==
    /\ pc[r] = "route"
    /\ LET e == RouteEvent(payload[r]) IN
       /\ id' = [id EXCEPT ![r] = e.id]
       /\ gitSha' = [gitSha EXCEPT ![r] = e.gitSha]
       /\ IF ~e.known
          THEN /\ errHandler(r, StatusInternalServerError,
                     "unknown event type: " \o payload[r].EventType)
               /\ Goto(r, "done")
          ELSE /\ Goto(r, "enrich")
               /\ UNCHANGED <<w, errLog>>
    /\ UNCHANGED <<server, body, payload, ctx, ctxLog, fullEventPayload, file, err, cfg, calls>>

\* Faulty variant of lines 101-102: the two values are attached crosswise.
EnrichContextCrossed(r) ==
    /\ pc[r] = "enrich"
    /\ ctx' = [ctx EXCEPT ![r] = [@ EXCEPT !.commitSHA = id[r],
                                           !.mergeRequestID = gitSha[r],
                                           !.eventType = payload[r].EventType]]
    /\ ctxLog' = [ctxLog EXCEPT ![r] = @ \o <<"commitSHA", "mergeRequestID", "eventType">>]
    /\ Goto(r, "redecode")
    /\ UNCHANGED <<server, body, payload, id, gitSha, fullEventPayload, file, err, cfg,
                   w, calls, errLog>>

\* Lines 101-103
EnrichContext(r) ==
    /\ pc[r] = "enrich"
    /\ ctx' = [ctx EXCEPT ![r] = [@ EXCEPT !.commitSHA = gitSha[r],
                                           !.mergeRequestID = id[r],
                                           !.eventType = payload[r].EventType]]
    /\ ctxLog' = [ctxLog EXCEPT ![r] = @ \o <<"commitSHA", "mergeRequestID", "eventType">>]
    /\ Goto(r, "redecode")
    /\ UNCHANGED <<server, body, payload, id, gitSha, fullEventPayload, file, err, cfg,
                   w, calls, errLog>>

\* Lines 108-113: the second decode of the same bytes.
DecodeFullPayload(r) ==
    /\ pc[r] = "redecode"
    /\ LET d == DecodeAny(body[r]) IN
       /\ fullEventPayload' = [fullEventPayload EXCEPT ![r] = d.value]
       /\ IF d.err # NoErr
          THEN /\ errHandler(r, StatusInternalServerError, d.err)
               /\ Goto(r, "done")
          ELSE /\ Goto(r, "fetch")
               /\ UNCHANGED <<w, errLog>>
    /\ UNCHANGED <<server, body, payload, ctx, ctxLog, id, gitSha, file, err, cfg, calls>>

\* Faulty variants of line 118: the fallback test inverted; the fallback
\* test left out.
FetchIsFatalEither(e, globalPath) == e # NoErr \/ globalPath = ""
FetchIsFatalInverted(e, globalPath) == e # NoErr /\ globalPath # ""
FetchIsFatalAlways(e, globalPath) == e # NoErr

\* Line 118: a fetch error ends the request only when no global path is set.
FetchIsFatal(e, globalPath) == e # NoErr /\ globalPath = ""

\* Faulty variant of lines 118-122: a fatal fetch error is answered 500.
GetRemoteConfigHardFailure(r) ==
    /\ pc[r] = "fetch"
    /\ calls' = [calls EXCEPT ![r] =
          Append(@, Call("GetRemoteConfig", ctx[r], ConfigFilePath, ctx[r].commitSHA,
                         NilConfig, {}))]
    /\ file' = [file EXCEPT ![r] = outcome[r].fetch.file]
    /\ err' = [err EXCEPT ![r] = outcome[r].fetch.err]
    /\ IF outcome[r].fetch.err # NoErr /\ globalConfigFilePath = ""
       THEN /\ errHandler(r, StatusInternalServerError, outcome[r].fetch.err)
            /\ Goto(r, "done")
       ELSE /\ Goto(r, "resolve")
            /\ UNCHANGED <<w, errLog>>
    /\ UNCHANGED <<server, body, payload, ctx, ctxLog, id, gitSha, fullEventPayload, cfg>>

\* Lines 116-122: state.CommitSHA(ctx) pins the fetch to the routed commit.
GetRemoteConfig(r) ==
    /\ pc[r] = "fetch"
    /\ calls' = [calls EXCEPT ![r] =
          Append(@, Call("GetRemoteConfig", ctx[r], ConfigFilePath, ctx[r].commitSHA,
                         NilConfig, {}))]
    /\ file' = [file EXCEPT ![r] = outcome[r].fetch.file]
    /\ err' = [err EXCEPT ![r] = outcome[r].fetch.err]
    /\ IF FetchIsFatal(outcome[r].fetch.err, globalConfigFilePath)
       THEN /\ errHandler(r, StatusOK, outcome[r].fetch.err)
            /\ Goto(r, "done")
       ELSE /\ Goto(r, "resolve")
            /\ UNCHANGED <<w, errLog>>
    /\ UNCHANGED <<server, body, payload, ctx, ctxLog, id, gitSha, fullEventPayload, cfg>>

\* Faulty variants of lines 129-135: the global configuration also replaces
\* a file that fails to parse; no file leaves the configuration nil.
ChooseConfigGlobalOnParseError(f, global) ==
    IF f.present /\ f.valid THEN ParseFile(f) ELSE global
ChooseConfigNilWithoutFile(f, global) == IF f.present THEN ParseFile(f) ELSE NilConfig

\* Lines 129-135: the remote file when there is one, else the global
\* configuration; the parse error is dropped.
ChooseConfig(f, global) == IF f.present THEN ParseFile(f) ELSE global

\* Faulty variant of lines 132-135: without a file the client is asked again,
\* for the global path.
ResolveConfigRefetch(r) ==
    /\ pc[r] = "resolve"
    /\ cfg' = [cfg EXCEPT ![r] = ChooseConfig(file[r], globalConfig)]
    /\ calls' = [calls EXCEPT ![r] =
          IF file[r].present THEN @
          ELSE Append(@, Call("GetRemoteConfig", ctx[r], globalConfigFilePath,
                              ctx[r].commitSHA, NilConfig, {}))]
    /\ Goto(r, "process")
    /\ UNCHANGED <<server, body, payload, ctx, ctxLog, id, gitSha, fullEventPayload, file,
                   err, w, errLog>>

ResolveConfig(r) ==
    /\ pc[r] = "resolve"
    /\ cfg' = [cfg EXCEPT ![r] = ChooseConfig(file[r], globalConfig)]
    /\ Goto(r, "process")
    /\ UNCHANGED <<server, body, payload, ctx, ctxLog, id, gitSha, fullEventPayload, file, err,
                   w, calls, errLog>>

\* Faulty variant of lines 138-142: a ProcessMR error is answered 500.
ProcessingBridgeHardFailure(r) ==
    /\ pc[r] = "process"
    /\ calls' = [calls EXCEPT ![r] =
          Append(@, Call("ProcessMR", ctx[r], NoArg, NoArg, cfg[r], fullEventPayload[r]))]
    /\ IF outcome[r].process # NoErr
       THEN errHandler(r, StatusInternalServerError, outcome[r].process)
       ELSE /\ w' = [w EXCEPT ![r] = Write(WriteHeader(@, StatusOK), "OK")]
            /\ UNCHANGED errLog
    /\ Goto(r, "done")
    /\ UNCHANGED <<server, locals>>

\* Faulty variant of lines 138-142: a ProcessMR error ends the request with
\* nothing written.
ProcessingBridgeSilentOnError(r) ==
    /\ pc[r] = "process"
    /\ calls' = [calls EXCEPT ![r] =
          Append(@, Call("ProcessMR", ctx[r], NoArg, NoArg, cfg[r], fullEventPayload[r]))]
    /\ IF outcome[r].process # NoErr
       THEN UNCHANGED <<w, errLog>>
       ELSE /\ w' = [w EXCEPT ![r] = Write(WriteHeader(@, StatusOK), "OK")]
            /\ UNCHANGED errLog
    /\ Goto(r, "done")
    /\ UNCHANGED <<server, locals>>

\* Lines 138-145
ProcessingBridge(r) ==
    /\ pc[r] = "process"
    /\ calls' = [calls EXCEPT ![r] =
          Append(@, Call("ProcessMR", ctx[r], NoArg, NoArg, cfg[r], fullEventPayload[r]))]
    /\ IF outcome[r].process # NoErr
       THEN errHandler(r, StatusOK, outcome[r].process)
       ELSE /\ w' = [w EXCEPT ![r] = Write(WriteHeader(@, StatusOK), "OK")]
            /\ UNCHANGED errLog
    /\ Goto(r, "done")
    /\ UNCHANGED <<server, locals>>

Handler(r) ==
    \/ AuthGate(r)
    \/ ValidateContentType(r)
    \/ ReadBody(r)
    \/ CheckEmptyBody(r)
    \/ DecodePayload(r)
    \/ EventRouter(r)
    \/ EnrichContext(r)
    \/ DecodeFullPayload(r)
    \/ GetRemoteConfig(r)
    \/ ResolveConfig(r)
    \/ ProcessingBridge(r)

Next == \E r \in Reqs : Handler(r)

Spec == Init /\ [][Next]_vars

\* The handler's goroutine keeps running: io.ReadAll, GetRemoteConfig and
\* ProcessMR return, and a statement that can run does run.
Fairness == \A r \in Reqs : WF_vars(Handler(r))

SpecLive == Init /\ [][Next]_vars /\ Fairness

\* Two requests in flight that differ at most in the X-Gitlab-Token header
\* and get the same answers from the collaborators.
InitTwin ==
    /\ InitServer
    /\ \E q \in PathRequests, t \in Tokens, o \in Outcomes :
          /\ req = [r \in Reqs |-> IF r = "r1" THEN q ELSE [q EXCEPT !.token = t]]
          /\ outcome = [r \in Reqs |-> o]
    /\ InitHandlers(Reqs)

SpecTwin == InitTwin /\ [][Next]_vars

\* Two requests in flight with inputs and collaborator answers of their own.
ConcurrentBodies ==
    {EmptyBody} \cup
    {ObjectBody(o) : o \in {p \in PathObjects :
                                /\ p.oa_iid = JNum(7)
                                /\ p.event_type.s \in {"merge_request", "note"}}}

ConcurrentRequests ==
    [token : {"s3cret", "S3cret"}, contentType : {"application/json", "text/plain"},
     body : ConcurrentBodies]

ConcurrentOutcomes == {o \in Outcomes : o.read = NoErr /\ o.fetch.file # BadFile}

InitConcurrent ==
    /\ InitServer
    /\ req \in [Reqs -> ConcurrentRequests]
    /\ outcome \in [Reqs -> ConcurrentOutcomes]
    /\ InitHandlers(Reqs)

SpecConcurrent == InitConcurrent /\ [][Next]_vars

----------------------------------------------------------------------------
\* What the properties speak of.

Invoked(r, fn) == \E i \in 1..Len(calls[r]) : calls[r][i].fn = fn
CallsOf(r, fn) == SelectSeq(calls[r], LAMBDA c : c.fn = fn)
Fetched(r) == Invoked(r, "GetRemoteConfig")
Processed(r) == Invoked(r, "ProcessMR")
Done(r) == pc[r] = "done"

\* The request's headers pass the auth gate / both header checks.
TokenAccepted(r) == webhookSecret = "" \/ req[r].token = webhookSecret
HeadersAccepted(r) == TokenAccepted(r) /\ req[r].contentType = "application/json"
BodyArrived(r) == HeadersAccepted(r) /\ outcome[r].read = NoErr
Before(r, labels) == pc[r] \in {"idle"} \cup labels

FetchFailed(r) == Fetched(r) /\ outcome[r].fetch.err # NoErr
FileReturned(r) == Fetched(r) /\ outcome[r].fetch.file.present

----------------------------------------------------------------------------
\* C1: when GetRemoteConfig returns an error and GlobalConfigFilePath is
\* empty, the request ends with status 200 carrying the fetch error text and
\* ProcessMR is never invoked.
C1_FetchErrorNoFallbackAborts ==
    \A r \in Reqs :
        (FetchFailed(r) /\ globalConfigFilePath = "") =>
            /\ Done(r)
            /\ w[r].header = <<200>>
            /\ w[r].body = <<outcome[r].fetch.err>>
            /\ ~Processed(r)

C1_Witness ==
    \E r \in Reqs : FetchFailed(r) /\ globalConfigFilePath = "" /\ Done(r)

\* C2: when GetRemoteConfig returns an error and a global path is
\* configured, the request is not aborted: nothing is written at the config
\* stage, and the request ends only after ProcessMR was invoked with the
\* global configuration.
C2_FetchErrorWithFallbackUsesGlobal ==
    \A r \in Reqs :
        (FetchFailed(r) /\ globalConfigFilePath # "") =>
            /\ ~Processed(r) => (pc[r] \in {"resolve", "process"} /\ w[r] = EmptyResponse)
            /\ pc[r] = "process" => cfg[r] = globalConfig
            /\ Done(r) => /\ Len(CallsOf(r, "ProcessMR")) = 1
                          /\ CallsOf(r, "ProcessMR")[1].cfg = globalConfig

C2_Witness ==
    \E r \in Reqs : FetchFailed(r) /\ globalConfigFilePath # "" /\ Processed(r)

\* C3: whenever GetRemoteConfig returns a file, the configuration passed to
\* ProcessMR is the parse of that file and never the global configuration;
\* when the parse fails it is null, ProcessMR is still invoked and nothing is
\* written at the config stage.
C3_RemoteFilePreferred ==
    \A r \in Reqs :
        FileReturned(r) =>
            /\ ~Processed(r) => (pc[r] \in {"resolve", "process"} /\ w[r] = EmptyResponse)
            /\ Done(r) => Len(CallsOf(r, "ProcessMR")) = 1
            /\ \A i \in 1..Len(calls[r]) :
                  calls[r][i].fn = "ProcessMR" =>
                      /\ calls[r][i].cfg =
                            IF outcome[r].fetch.file.valid THEN RemoteConfig ELSE NilConfig
                      /\ calls[r][i].cfg # LoadedGlobalConfig

C3_Witness ==
    \E r \in Reqs :
        /\ FileReturned(r) /\ ~outcome[r].fetch.file.valid
        /\ globalConfigFilePath # ""
        /\ Processed(r)

\* C4: when GetRemoteConfig returns no file and a global path is configured,
\* ProcessMR receives the loaded global configuration, and GetRemoteConfig
\* was called exactly once, before ProcessMR.
C4_NoFileUsesGlobalWithoutRefetch ==
    \A r \in Reqs :
        (Fetched(r) /\ ~outcome[r].fetch.file.present /\ globalConfigFilePath # "") =>
            /\ Len(CallsOf(r, "GetRemoteConfig")) = 1
            /\ calls[r][1].fn = "GetRemoteConfig"
            /\ Done(r) => Processed(r)
            /\ Processed(r) =>
                  /\ Len(calls[r]) = 2
                  /\ calls[r][2].fn = "ProcessMR"
                  /\ calls[r][2].cfg = LoadedGlobalConfig
                  /\ calls[r][2].cfg = globalConfig

C4_Witness ==
    \E r \in Reqs :
        /\ Fetched(r) /\ outcome[r].fetch = [file |-> NilFile, err |-> NoErr]
        /\ globalConfigFilePath # ""
        /\ Processed(r)

\* C5: with a non-empty configured secret, a request whose X-Gitlab-Token
\* header is missing or differs from it is answered 403, whatever its content
\* type and body, and neither GetRemoteConfig nor ProcessMR is invoked.
C5_BadTokenForbidden ==
    \A r \in Reqs :
        (webhookSecret # "" /\ req[r].token # webhookSecret) =>
            /\ calls[r] = <<>>
            /\ pc[r] \in {"idle", "auth", "done"}
            /\ Done(r) => /\ w[r].header = <<403>>
                          /\ w[r].body = <<"Missing or invalid X-Gitlab-Token header">>

C5_Witness ==
    \E r \in Reqs :
        /\ webhookSecret # "" /\ req[r].token \notin {"", webhookSecret}
        /\ req[r].contentType = "application/json"
        /\ req[r].body.kind = "object"
        /\ Done(r)

\* C6: with an empty configured secret no request is answered 403, and two
\* requests that differ only in the X-Gitlab-Token header and get the same
\* collaborator answers end with the same status writes, the same body and
\* the same sequence of collaborator calls.
C6_OpenModeIgnoresToken ==
    webhookSecret = "" =>
        /\ \A r \in Reqs : \A i \in 1..Len(w[r].header) : w[r].header[i] # 403
        /\ \A r1, r2 \in Reqs :
              (/\ Done(r1) /\ Done(r2)
               /\ req[r1] = [req[r2] EXCEPT !.token = req[r1].token]
               /\ outcome[r1] = outcome[r2]) =>
                  /\ w[r1] = w[r2]
                  /\ calls[r1] = calls[r2]

C6_Witness ==
    /\ webhookSecret = ""
    /\ req["r1"].token # req["r2"].token
    /\ Done("r1") /\ Done("r2")
    /\ Processed("r1") /\ Processed("r2")

\* C7: a request that passes the auth gate and whose Content-Type is not
\* exactly "application/json" is answered 406, and the handler stops there:
\* the body is not read or decoded and no collaborator is called.
C7_WrongContentTypeNotAcceptable ==
    \A r \in Reqs :
        (TokenAccepted(r) /\ req[r].contentType # "application/json") =>
            /\ pc[r] \in {"idle", "auth", "ctype", "done"}
            /\ calls[r] = <<>>
            /\ body[r] = EmptyBody /\ err[r] = NoErr
            /\ payload[r] = ZeroPayload /\ fullEventPayload[r] = {}
            /\ Done(r) => w[r].header = <<406>>

C7_Witness ==
    \E r \in Reqs :
        /\ TokenAccepted(r)
        /\ req[r].contentType = "application/json; charset=utf-8"
        /\ req[r].body.kind = "object"
        /\ Done(r)

\* C8: for an empty body that passes the auth and content-type checks, the
\* first status written is 400 and neither GetRemoteConfig nor ProcessMR is
\* ever invoked.
C8_EmptyBodyBadRequest ==
    \A r \in Reqs :
        (BodyArrived(r) /\ req[r].body.len = 0) =>
            /\ calls[r] = <<>>
            /\ pc[r] \notin {"fetch", "resolve", "process"}
            /\ ~Before(r, {"auth", "ctype", "read", "empty"}) =>
                  /\ Len(w[r].header) >= 1
                  /\ Status(w[r]) = 400
                  /\ w[r].body[1] = "The POST body is empty; expected a JSON payload"

C8_Witness ==
    \E r \in Reqs : BodyArrived(r) /\ req[r].body.len = 0 /\ Done(r)

\* The bodies the typed decode rejects: nothing to decode, a syntax error,
\* or a string where the envelope has an int.
Undecodable(b) == b.kind # "object" \/ b.obj.oa_iid.t = "string"

\* C9: for a non-empty body that the typed decode rejects, the response is
\* 400 with the decode error text, the context is never enriched and neither
\* GetRemoteConfig nor ProcessMR is invoked.
C9_UndecodableBodyBadRequest ==
    \A r \in Reqs :
        (BodyArrived(r) /\ req[r].body.len > 0 /\ Undecodable(req[r].body)) =>
            /\ calls[r] = <<>>
            /\ ctx[r] = EmptyContext
            /\ Before(r, {"auth", "ctype", "read", "empty", "decode", "done"})
            /\ Done(r) =>
                  /\ w[r].header = <<400>>
                  /\ Len(w[r].body) = 1
                  /\ SubSeq(w[r].body[1], 1, 48) =
                        "could not decode POST body into Payload struct: "
                  /\ Len(w[r].body[1]) > 48

C9_Witness ==
    \E r \in Reqs :
        /\ BodyArrived(r) /\ req[r].body.kind = "object" /\ Undecodable(req[r].body)
        /\ Done(r)

\* The decimal form of the IIDs a payload may carry, written out.
Decimal(n) ==
    CASE n = 0 -> "0" [] n = 7 -> "7" [] n = 14 -> "14" [] n = 21 -> "21"
      [] n = 28 -> "28" [] OTHER -> "?"

\* The request got past the event switch.
Routed(r) == pc[r] \in {"enrich", "redecode", "fetch", "resolve", "process"} \/ Fetched(r)

\* C10: for event_type "merge_request" the resource identifier and commit
\* reference are object_attributes.iid and object_attributes.last_commit.id;
\* for "note" they are merge_request.iid and merge_request.last_commit.id;
\* the other variant's fields play no part.
C10_EventRouting ==
    \A r \in Reqs :
        Routed(r) =>
            LET o == req[r].body.obj IN
            /\ o.event_type.s \in {"merge_request", "note"}
            /\ o.event_type.s = "merge_request" =>
                  (id[r] = Decimal(o.oa_iid.n) /\ gitSha[r] = o.oa_sha.s)
            /\ o.event_type.s = "note" =>
                  (id[r] = Decimal(o.mr_iid.n) /\ gitSha[r] = o.mr_sha.s)
            /\ \A i \in 1..Len(calls[r]) :
                  /\ calls[r][i].ctx.mergeRequestID = id[r]
                  /\ calls[r][i].ctx.commitSHA = gitSha[r]

C10_Witness ==
    \E r \in Reqs :
        LET o == req[r].body.obj IN
        /\ Processed(r)
        /\ o.event_type.s = "note"
        /\ o.oa_iid.n # o.mr_iid.n /\ o.oa_sha # o.mr_sha
        /\ id[r] = "14"

\* The typed decode accepted the body of the request.
Decoded(r) == BodyArrived(r) /\ ~Undecodable(req[r].body)
EventKind(r) == req[r].body.obj.event_type.s

\* C11: a decoded payload whose event_type is neither "merge_request" nor
\* "note" (a missing one included) is answered 500 with a message naming the
\* kind, and the handler stops: no commit reference or resource identifier
\* joins the context and neither GetRemoteConfig nor ProcessMR is invoked.
C11_UnknownEventRejected ==
    \A r \in Reqs :
        (Decoded(r) /\ EventKind(r) \notin {"merge_request", "note"}) =>
            /\ calls[r] = <<>>
            /\ ctx[r].commitSHA = Unset /\ ctx[r].mergeRequestID = Unset
            /\ Before(r, {"auth", "ctype", "read", "empty", "decode", "route", "done"})
            /\ Done(r) =>
                  /\ w[r].header = <<500>>
                  /\ w[r].body = <<"unknown event type: " \o EventKind(r)>>

C11_Witness ==
    \E r \in Reqs : Decoded(r) /\ EventKind(r) = "push" /\ Done(r)

\* C12: a request in which ProcessMR is invoked is answered 200, with the
\* body "OK" exactly when ProcessMR returned no error and the error text
\* otherwise; "OK" is never written on a request that did not invoke it.
C12_ProcessingAcknowledged ==
    \A r \in Reqs :
        /\ Processed(r) =>
              /\ Done(r)
              /\ w[r].header = <<200>>
              /\ Len(w[r].body) = 1
              /\ (w[r].body[1] = "OK") <=> (outcome[r].process = NoErr)
              /\ outcome[r].process # NoErr => w[r].body[1] = outcome[r].process
        /\ ~Processed(r) => \A i \in 1..Len(w[r].body) : w[r].body[i] # "OK"

C12_Witness ==
    \E r \in Reqs : Processed(r) /\ outcome[r].process # NoErr /\ Done(r)

\* C13: once a status other than 200 has been written, no collaborator has
\* been called; once GetRemoteConfig has been invoked, every status written
\* is 200.
C13_TwoTierErrors ==
    \A r \in Reqs :
        /\ (\E i \in 1..Len(w[r].header) : w[r].header[i] # 200) =>
              (calls[r] = <<>> /\ pc[r] \in {"decode", "done"})
        /\ Fetched(r) => \A i \in 1..Len(w[r].header) : w[r].header[i] = 200

C13_Witness ==
    \E r \in Reqs :
        /\ Fetched(r) /\ Done(r) /\ ~Processed(r)
        /\ w[r].header = <<200>>

\* C14: every failure is terminal and reported once: errHandler is invoked
\* at most once per request, no stage runs after it, and a request produces
\* exactly one status write.
C14_FailureReportedOnce ==
    \A r \in Reqs :
        /\ Len(errLog[r]) <= 1
        /\ Len(errLog[r]) >= 1 => Done(r)
        /\ Done(r) => Len(w[r].header) = 1

\* The names of the collaborators called so far, in order.
CallNames(r) == [i \in 1..Len(calls[r]) |-> calls[r][i].fn]

\* C15: within one request GetRemoteConfig is called at most once and
\* ProcessMR at most once, ProcessMR only after GetRemoteConfig has returned,
\* and neither is called again after it fails.
C15_NoRetry ==
    \A r \in Reqs :
        /\ CallNames(r) \in {<<>>, <<"GetRemoteConfig">>, <<"GetRemoteConfig", "ProcessMR">>}
        /\ Processed(r) =>
              /\ Done(r)
              /\ file[r] = outcome[r].fetch.file /\ err[r] = outcome[r].fetch.err
        /\ (FetchFailed(r) /\ globalConfigFilePath = "") => (Done(r) /\ Len(calls[r]) = 1)
        /\ pc[r] \in {"auth", "ctype", "read", "empty", "decode", "route", "enrich",
                      "redecode", "fetch"} => calls[r] = <<>>

C15_Witness ==
    \E r \in Reqs :
        /\ Processed(r) /\ outcome[r].process # NoErr
        /\ outcome[r].fetch.err # NoErr
        /\ Done(r)

\* The correlation fields in the order the handler attaches them, and the
\* value the payload of the request gives each.
FieldOrder == <<"projectID", "commitSHA", "mergeRequestID", "eventType">>

FieldOfPayload(r, f) ==
    LET o == req[r].body.obj
        mr == o.event_type.s = "merge_request"
    IN CASE f = "projectID" -> o.project.s
         [] f = "commitSHA" -> IF mr THEN o.oa_sha.s ELSE o.mr_sha.s
         [] f = "mergeRequestID" -> Decimal(IF mr THEN o.oa_iid.n ELSE o.mr_iid.n)
         [] OTHER -> o.event_type.s

ContextOfPayload(r) == [f \in DOMAIN EmptyContext |-> FieldOfPayload(r, f)]

\* C16: each correlation field is set at most once, in the order project,
\* commit, resource identifier, event kind, and keeps its value; when
\* GetRemoteConfig and ProcessMR are invoked the context holds the values of
\* this request's payload, and GetRemoteConfig is given the routed commit.
C16_ContextSetOnce ==
    \A r \in Reqs :
        /\ ctxLog[r] \in {SubSeq(FieldOrder, 1, n) : n \in {0, 1, 4}}
        /\ \A f \in DOMAIN EmptyContext :
              ctx[r][f] = IF \E i \in 1..Len(ctxLog[r]) : ctxLog[r][i] = f
                          THEN FieldOfPayload(r, f)
                          ELSE Unset
        /\ \A i \in 1..Len(calls[r]) :
              /\ calls[r][i].ctx = ContextOfPayload(r)
              /\ calls[r][i].ctx = ctx[r]
              /\ calls[r][i].fn = "GetRemoteConfig" =>
                    (calls[r][i].sha = gitSha[r] /\ calls[r][i].sha = FieldOfPayload(r, "commitSHA"))

C16_Witness ==
    \E r \in Reqs :
        /\ Processed(r) /\ Done(r)
        /\ req[r].body.obj.event_type.s = "note"
        /\ req[r].body.obj.oa_sha # req[r].body.obj.mr_sha
        /\ ctxLog[r] = FieldOrder

\* The status of the earliest stage the request fails, in the order auth,
\* content type, body, typed decode, event kind; 200 when it fails none.
EarliestFailure(r) ==
    IF webhookSecret # "" /\ req[r].token # webhookSecret THEN 403
    ELSE IF req[r].contentType # "application/json" THEN 406
    ELSE IF outcome[r].read # NoErr \/ req[r].body.len = 0 THEN 400
    ELSE IF Undecodable(req[r].body) THEN 400
    ELSE IF EventKind(r) \notin {"merge_request", "note"} THEN 500
    ELSE 200

\* C17: the stage checks are applied in the order auth, content type, body,
\* typed decode, event kind: a request that violates several preconditions
\* gets the response of the earliest failing stage.
C17_EarliestStageAnswers ==
    \A r \in Reqs :
        /\ Len(w[r].header) >= 1 => Status(w[r]) = EarliestFailure(r)
        /\ Done(r) => Len(w[r].header) >= 1

C17_Witness ==
    \E r \in Reqs :
        /\ Done(r)
        /\ webhookSecret # "" /\ req[r].token # webhookSecret
        /\ req[r].contentType # "application/json"
        /\ Undecodable(req[r].body)

\* What the request gets when it is served alone: the WriteHeader calls, the
\* bodies written and the collaborator calls, from its own inputs and answers.
AloneHeader(r) ==
    IF BodyArrived(r) /\ req[r].body.len = 0 THEN <<400, 400>> ELSE <<EarliestFailure(r)>>

AloneCalls(r) ==
    LET c == ContextOfPayload(r)
        f == outcome[r].fetch
        fetch == Call("GetRemoteConfig", c, ConfigFilePath, c.commitSHA, NilConfig, {})
        config == IF f.file.present
                  THEN (IF f.file.valid THEN RemoteConfig ELSE NilConfig)
                  ELSE globalConfig
        full == {<<k, req[r].body.obj[k]>> :
                    k \in {j \in DOMAIN EmptyObject : req[r].body.obj[j] # JAbsent}}
    IN IF EarliestFailure(r) # 200 THEN <<>>
       ELSE IF f.err # NoErr /\ globalConfigFilePath = "" THEN <<fetch>>
       ELSE <<fetch, Call("ProcessMR", c, NoArg, NoArg, config, full)>>

AloneText(r) ==
    CASE EarliestFailure(r) # 200 -> "error"
      [] outcome[r].fetch.err # NoErr /\ globalConfigFilePath = "" -> outcome[r].fetch.err
      [] outcome[r].process # NoErr -> outcome[r].process
      [] OTHER -> "OK"

EndsAsAlone(r) ==
    /\ w[r].header = AloneHeader(r)
    /\ calls[r] = AloneCalls(r)
    /\ EarliestFailure(r) = 200 => w[r].body = <<AloneText(r)>>

\* All that one request in flight holds.
RequestState(r) ==
    <<pc[r], body[r], payload[r], ctx[r], ctxLog[r], id[r], gitSha[r], fullEventPayload[r],
      file[r], err[r], cfg[r], w[r], calls[r], errLog[r]>>

\* A step that changes one request's state leaves the other requests' state
\* and everything the handler was built with as they were.
StepsAreLocal ==
    \A r \in Reqs :
        RequestState(r)' # RequestState(r) =>
            /\ \A s \in Reqs \ {r} : RequestState(s)' = RequestState(s)
            /\ UNCHANGED server

\* C18: requests handled concurrently do not interfere: no handler step
\* writes state of another request, and under every interleaving a request
\* ends with the response and the collaborator calls it gets when served
\* alone with the same inputs and answers.
C18_RequestsDoNotInterfere ==
    /\ [][StepsAreLocal]_vars
    /\ [](\A r \in Reqs : Done(r) => EndsAsAlone(r))

C18_Witness ==
    /\ Done("r1") /\ Processed("r1")
    /\ pc["r2"] \in {"fetch", "resolve", "process"}
    /\ req["r1"] # req["r2"] /\ outcome["r1"] # outcome["r2"]
    /\ calls["r2"] # <<>>

\* The same, for a request served alone.
AloneIsAlone == \A r \in Reqs : Done(r) => EndsAsAlone(r)

\* GetRemoteConfig answered with neither an error nor a file.
FetchedNothing(r) == Fetched(r) /\ outcome[r].fetch = [file |-> NilFile, err |-> NoErr]

\* C20: when GetRemoteConfig returns neither an error nor a file and no
\* global path is configured, the request is not aborted: nothing is written
\* at the config stage and ProcessMR is invoked once with what
\* GlobalConfigFromContext returns, the nil configuration; and a request
\* that called GetRemoteConfig ends without ProcessMR only after a fetch
\* error with no global path configured.
C20_NoFileNoFallbackStillProcesses ==
    \A r \in Reqs :
        /\ (FetchedNothing(r) /\ globalConfigFilePath = "") =>
              /\ ~Processed(r) => (pc[r] \in {"resolve", "process"} /\ w[r] = EmptyResponse)
              /\ pc[r] = "process" => cfg[r] = globalConfig
              /\ Done(r) => Processed(r)
              /\ Processed(r) =>
                    /\ Len(CallsOf(r, "ProcessMR")) = 1
                    /\ calls[r][Len(calls[r])].fn = "ProcessMR"
                    /\ calls[r][Len(calls[r])].cfg = globalConfig
                    /\ calls[r][Len(calls[r])].cfg = NilConfig
        /\ (Fetched(r) /\ Done(r) /\ ~Processed(r)) =>
              (outcome[r].fetch.err # NoErr /\ globalConfigFilePath = "")

C20_Witness ==
    \E r \in Reqs : FetchedNothing(r) /\ globalConfigFilePath = "" /\ Processed(r) /\ Done(r)

\* The statements of the handler in source order.
Stages ==
    <<"auth", "ctype", "read", "empty", "decode", "route", "enrich", "redecode",
      "fetch", "resolve", "process", "done">>

Position(label) == CHOOSE i \in 1..Len(Stages) : Stages[i] = label

\* A request in flight only moves forward through the source.
MovesForward ==
    \A r \in Reqs : pc'[r] # pc[r] => Position(pc'[r]) > Position(pc[r])

\* C19: every request eventually completes with a response: the handler only
\* moves forward through its statements, so it ends within as many steps as
\* there are statements, every request in flight reaches the end, and at the
\* end at least one status has been written.
C19_EventuallyResponds ==
    /\ [][MovesForward]_vars
    /\ [](\A r \in Reqs : Done(r) => Len(w[r].header) >= 1)
    /\ \A r \in Reqs : (pc[r] = "auth") ~> (Done(r) /\ Len(w[r].header) >= 1)

C19_Witness ==
    \E r \in Reqs : Done(r) /\ Processed(r) /\ outcome[r].process # NoErr /\ w[r].header = <<200>>

====
